---- MODULE Spec2Model ----
(***************************************************************************)
(* Model of the consensus recommendation engine of the grooming assistant: *)
(* LLMService.generateConsensusRecommendations and the functions it calls  *)
(* (src/src/services/llm-service.ts).                                      *)
(*                                                                         *)
(* Spec     one run of generateConsensusRecommendations: the trials are    *)
(*          dispatched together, settle in any order, are joined, and the  *)
(*          run continues with the fallback call or with aggregation and   *)
(*          the optional rationale call.                                   *)
(* SpecAgg  aggregateTrialResults as a pure function of a ticket list and  *)
(*          a list of valid trial results, each of them an output of       *)
(*          parseAssignmentResponse.                                       *)
(* SpecProfiles  buildEngineerProfiles and buildEpicContinuitySignals as    *)
(*          pure functions of a work history and a ticket list.            *)
(* SpecGroom  one run of GroomingService.generateRecommendations           *)
(*          (src/src/services/grooming-service.ts): the ticket file is     *)
(*          read and parsed, the tickets and the work history are fetched  *)
(*          from Jira, and generateConsensusRecommendations is called with *)
(*          five trials.                                                   *)
(***************************************************************************)
EXTENDS Integers, Sequences, FiniteSets, TLC

VARIABLES
    ticketsToGroom,     \* parameter: GroomingTicket[]
    engineerProfiles,   \* parameter: the names of the EngineerProfile[]
    verbose,            \* parameter: boolean
    numTrials,          \* parameter: number of trials
    pc,                 \* position of the run
    trialResponse,      \* per trial: the outcome of its generateText call
    allTrialResults,    \* per trial: what its promise chain resolved to
    validTrials,        \* the non-empty trial results, in trial order
    consensusResults,   \* output of aggregateTrialResults
    output,             \* the list returned to the caller
    calls,              \* the oracle calls made so far, in dispatch order
    rationaleResponse,  \* the outcome of the rationale generateText call
    gpc,                \* position of the run of generateRecommendations
    parsedTickets,      \* parseTicketList(fileContent).tickets
    jiraIssues,         \* fetchIssuesByKeys(...).found, as ticket ids
    notFound,           \* fetchIssuesByKeys(...).notFound
    engineerIssuesMap,  \* the assignee names of fetchGroomingEngineerIssues()
    sourceCalls,        \* the Jira searches made so far
    result,             \* the GroomingResult returned
    issuesSearch,       \* the outcome of the Jira search of fetchIssuesByKeys
    epicSignals,        \* parameter: EpicContinuitySignal[]
    issuesByAssignee,   \* buildEngineerProfiles on its own: its argument
    builtProfiles       \* buildEngineerProfiles on its own: its result

\* The frame of generateRecommendations.
groomVars == <<gpc, parsedTickets, jiraIssues, notFound, engineerIssuesMap,
               sourceCalls, result, issuesSearch>>

\* The profile builder called on its own.
profileVars == <<issuesByAssignee, builtProfiles>>

vars == <<ticketsToGroom, engineerProfiles, verbose, numTrials, pc,
          trialResponse, allTrialResults, validTrials, consensusResults,
          output, calls, rationaleResponse, groomVars, epicSignals, profileVars>>

(***************************************************************************)
(* Bounds                                                                  *)
(***************************************************************************)
MaxTickets == 2
MaxTrials == 3
MaxAggTrials == 4
MaxIssues == 5

(***************************************************************************)
(* Values                                                                  *)
(***************************************************************************)
Sentinel == "Unable to determine"
Absent == "<undefined>"
NoConfidence == << >>
ConfigTemperature == 3

Min(a, b) == IF a < b THEN a ELSE b

Range(seq) == { seq[i] : i \in 1..Len(seq) }

Ticket(k, c, s) == [ticketKey |-> k, category |-> c, summary |-> s]

\* GroomingTickets the caller can pass.  A list may hold a ticket twice: the
\* ticket-list parser does not deduplicate keys.
TicketPool ==
    { Ticket("T-1", "Meetings", "Add meeting button"),
      Ticket("T-2", "PostHog", "Remove survey") }

RECURSIVE SeqsUpTo(_, _)
SeqsUpTo(S, n) ==
    IF n = 0 THEN { << >> }
    ELSE LET shorter == SeqsUpTo(S, n - 1)
         IN  shorter \cup { Append(s, x) : s \in { t \in shorter : Len(t) = n - 1 }, x \in S }

TicketLists == SeqsUpTo(TicketPool, MaxTickets)

ProfileLists == { <<"Alice">>, <<"Alice", "Bob">> }

(***************************************************************************)
(* The oracle (generateText): it rejects, or resolves with a text.  A text *)
(* is an optional opening fence, a body and an optional closing fence; the *)
(* body is not JSON, JSON that is no array, or a JSON array of items.      *)
(***************************************************************************)
Pending == [kind |-> "pending"]
OracleError == [kind |-> "error"]
Text(open, body, close) == [kind |-> "text", open |-> open, body |-> body, close |-> close]
NotJSON == [json |-> "invalid"]
JSONObject == [json |-> "object"]
JSONArray(items) == [json |-> "array", items |-> items]
Item(k, e, r) == [ticketKey |-> k, recommendedEngineer |-> e, reasoning |-> r]

\* Texts the oracle can answer an assignment prompt with.
RespGarbage == Text("", NotJSON, FALSE)
RespEmpty == Text("", JSONArray(<< >>), FALSE)
RespAliceBob ==
    Text("fence:json", JSONArray(<<Item("T-1", "Alice", "continuity"), Item("T-2", "Bob", Absent)>>), TRUE)
RespBobBob == Text("", JSONArray(<<Item("T-1", "Bob", Absent), Item("T-2", "Bob", Absent)>>), FALSE)
RespAliceOnly == Text("", JSONArray(<<Item("T-1", "Alice", Absent)>>), FALSE)
RespUnknown ==
    Text("fence", JSONArray(<<Item("T-9", "Alice", Absent), Item("T-2", "Zed", "growth")>>), TRUE)
RespRepeatedKey ==
    Text("", JSONArray(<<Item("T-1", "Bob", Absent), Item("T-1", "Alice", Absent),
                         Item("T-2", "Alice", Absent)>>), FALSE)

AssignmentResponses ==
    { OracleError, RespGarbage, RespEmpty, RespAliceBob, RespBobBob, RespAliceOnly,
      RespUnknown, RespRepeatedKey }

\* The responses a run of generateRecommendations, with its five trials, is
\* explored with.
GroomResponses == { OracleError, RespAliceBob, RespBobBob }

\* What a generateText call for assignments can settle to in the run at hand.
OracleResponses == IF gpc = "none" THEN AssignmentResponses ELSE GroomResponses

\* The responses the aggregation is explored with.
AggResponses == { RespGarbage, RespAliceBob, RespUnknown, RespRepeatedKey }

RationaleItem(k, r) == [ticketKey |-> k, reasoning |-> r]

RationaleResponses ==
    { OracleError,
      Text("", NotJSON, FALSE),
      Text("", JSONObject, FALSE),
      Text("fence:json", JSONArray(<<RationaleItem("T-1", "why T-1"), RationaleItem("T-2", "why T-2")>>), TRUE),
      Text("", JSONArray(<<RationaleItem("T-9", "why T-9"), RationaleItem("T-1", "")>>), FALSE) }

(***************************************************************************)
(* Parsing                                                                 *)
(***************************************************************************)
\* trim, drop an opening fence, drop a closing fence, trim: what is left is
\* the body of the text.
StripFence(text) == text.body

\* JSON.parse followed by the use of the value as an array: it throws on
\* text that is not JSON, and the call of .map throws on a value that is no
\* array; both are caught by the caller's try block.
ParsesToArray(jsonStr) == jsonStr.json = "array"

\* new Map(originalTickets.map(t => [t.ticketKey, t])).get(key): of several
\* entries with one key the last one stays.
TicketMapHas(originalTickets, key) ==
    \E i \in 1..Len(originalTickets) : originalTickets[i].ticketKey = key

TicketMapGet(originalTickets, key) ==
    LET last == CHOOSE i \in 1..Len(originalTickets) :
                    /\ originalTickets[i].ticketKey = key
                    /\ \A j \in (i + 1)..Len(originalTickets) : originalTickets[j].ticketKey # key
    IN  originalTickets[last]

\* originalTicket?.category || "Unknown"
CategoryOf(originalTickets, key) ==
    IF TicketMapHas(originalTickets, key) /\ TicketMapGet(originalTickets, key).category # ""
    THEN TicketMapGet(originalTickets, key).category
    ELSE "Unknown"

\* originalTicket?.summary || ""
SummaryOf(originalTickets, key) ==
    IF TicketMapHas(originalTickets, key) THEN TicketMapGet(originalTickets, key).summary ELSE ""

Recommendation(k, c, s, e, r, conf) ==
    [ticketKey |-> k, category |-> c, summary |-> s, recommendedEngineer |-> e,
     reasoning |-> r, confidence |-> conf]

\* The catch block of parseAssignmentResponse: one record per original
\* ticket, naming the sentinel.
ParseFailureResult(originalTickets, verb) ==
    [i \in 1..Len(originalTickets) |->
        Recommendation(originalTickets[i].ticketKey, originalTickets[i].category,
                       originalTickets[i].summary, Sentinel,
                       IF verb THEN "Failed to parse LLM response" ELSE Absent,
                       NoConfidence)]

parseAssignmentResponse(response, originalTickets, verb) ==
    LET jsonStr == StripFence(response)
    IN  IF ParsesToArray(jsonStr)
        THEN [i \in 1..Len(jsonStr.items) |->
                LET item == jsonStr.items[i]
                IN  Recommendation(item.ticketKey,
                                   CategoryOf(originalTickets, item.ticketKey),
                                   SummaryOf(originalTickets, item.ticketKey),
                                   item.recommendedEngineer,
                                   IF verb THEN item.reasoning ELSE Absent,
                                   NoConfidence)]
        ELSE ParseFailureResult(originalTickets, verb)

\* generateText(...).then(parse).catch(() => []): what a trial's promise
\* resolves to.
TrialOutcome(response, originalTickets) ==
    IF response.kind = "error" THEN << >>
    ELSE parseAssignmentResponse(response, originalTickets, FALSE)

(***************************************************************************)
(* aggregateTrialResults.  The Map votes is a sequence of entries in       *)
(* insertion order, which is the order a Map is iterated in.               *)
(***************************************************************************)
\* Mutant: the last record with the key is taken.
FindLastRec(trial, key) ==
    IF \E i \in 1..Len(trial) : trial[i].ticketKey = key
    THEN CHOOSE i \in 1..Len(trial) :
            /\ trial[i].ticketKey = key
            /\ \A j \in (i + 1)..Len(trial) : trial[j].ticketKey # key
    ELSE 0

\* trial.find(r => r.ticketKey === key): index of the first record with the
\* key, 0 when there is none.
FindRec(trial, key) ==
    IF \E i \in 1..Len(trial) : trial[i].ticketKey = key
    THEN CHOOSE i \in 1..Len(trial) :
            /\ trial[i].ticketKey = key
            /\ \A j \in 1..(i - 1) : trial[j].ticketKey # key
    ELSE 0

\* votes.get(engineer) || 0
VotesGet(votes, engineer) ==
    IF \E i \in 1..Len(votes) : votes[i].engineer = engineer
    THEN votes[CHOOSE i \in 1..Len(votes) : votes[i].engineer = engineer].count
    ELSE 0

\* Mutant: an updated entry is removed and entered again, so that it goes last.
VotesSetMoveToEnd(votes, engineer, count) ==
    Append(SelectSeq(votes, LAMBDA v : v.engineer # engineer),
           [engineer |-> engineer, count |-> count])

\* votes.set(engineer, count): an existing entry keeps its place, a new one
\* goes last.
VotesSet(votes, engineer, count) ==
    IF \E i \in 1..Len(votes) : votes[i].engineer = engineer
    THEN [i \in 1..Len(votes) |->
            IF votes[i].engineer = engineer
            THEN [engineer |-> engineer, count |-> count]
            ELSE votes[i]]
    ELSE Append(votes, [engineer |-> engineer, count |-> count])

\* Mutant: the vote is stored without adding it to the previous count.
CastVoteNoIncrement(votes, trial, key) ==
    LET at == FindRec(trial, key)
    IN  IF at # 0 THEN VotesSet(votes, trial[at].recommendedEngineer, 1) ELSE votes

\* The body of the loop over the trials, for one trial.
CastVote(votes, trial, key) ==
    LET at == FindRec(trial, key)
    IN  IF at # 0
        THEN VotesSet(votes, trial[at].recommendedEngineer,
                      VotesGet(votes, trial[at].recommendedEngineer) + 1)
        ELSE votes

\* Mutant: the loop starts at the second trial.
RECURSIVE TallyVotesSkipFirst(_, _, _)
TallyVotesSkipFirst(trials, key, n) ==
    IF n <= 1 THEN << >>
    ELSE CastVote(TallyVotesSkipFirst(trials, key, n - 1), trials[n], key)

\* The loop over the trials: votes after the first n trials.
RECURSIVE TallyVotes(_, _, _)
TallyVotes(trials, key, n) ==
    IF n = 0 THEN << >>
    ELSE CastVote(TallyVotes(trials, key, n - 1), trials[n], key)

\* Mutant: >= in place of >, so that the last of several tied engineers wins.
BeatsOrTies(count, winnerVotes) == count >= winnerVotes

\* if (count > winnerVotes)
Beats(count, winnerVotes) == count > winnerVotes

\* The loop over the entries of votes: winner after the first n entries.
RECURSIVE PickWinner(_, _)
PickWinner(votes, n) ==
    IF n = 0 THEN [winner |-> Sentinel, winnerVotes |-> 0]
    ELSE LET before == PickWinner(votes, n - 1)
         IN  IF Beats(votes[n].count, before.winnerVotes)
             THEN [winner |-> votes[n].engineer, winnerVotes |-> votes[n].count]
             ELSE before

\* `${winnerVotes}/${totalTrials}`
Confidence(winnerVotes, totalTrials) == <<winnerVotes, totalTrials>>

aggregateTrialResults(originalTickets, trials, totalTrials) ==
    [i \in 1..Len(originalTickets) |->
        LET key == originalTickets[i].ticketKey
            votes == TallyVotes(trials, key, Len(trials))
            picked == PickWinner(votes, Len(votes))
        IN  Recommendation(key, CategoryOf(originalTickets, key),
                           SummaryOf(originalTickets, key), picked.winner, Absent,
                           Confidence(picked.winnerVotes, totalTrials))]

\* allTrialResults.filter(t => t.length > 0)
RECURSIVE FilterNonEmpty(_)
FilterNonEmpty(results) ==
    IF results = << >> THEN << >>
    ELSE IF Len(Head(results)) > 0
         THEN <<Head(results)>> \o FilterNonEmpty(Tail(results))
         ELSE FilterNonEmpty(Tail(results))

(***************************************************************************)
(* addConsensusReasoning                                                   *)
(***************************************************************************)
\* Mutant: the reasoning of the last item, whatever its key.
ReasoningOfLast(reasonings, key) ==
    IF Len(reasonings) > 0
    THEN IF reasonings[Len(reasonings)].reasoning = "" THEN Absent
         ELSE reasonings[Len(reasonings)].reasoning
    ELSE Absent

\* new Map(reasonings.map(r => [r.ticketKey, r.reasoning])).get(key) ||
\* undefined: the last entry with the key, and no reasoning for "".
ReasoningFor(reasonings, key) ==
    IF \E i \in 1..Len(reasonings) : reasonings[i].ticketKey = key
    THEN LET last == CHOOSE i \in 1..Len(reasonings) :
                        /\ reasonings[i].ticketKey = key
                        /\ \A j \in (i + 1)..Len(reasonings) : reasonings[j].ticketKey # key
         IN  IF reasonings[last].reasoning = "" THEN Absent ELSE reasonings[last].reasoning
    ELSE Absent

\* Mutant: a failed rationale call loses the consensus results.
MergeReasoningOrNothing(consensus, response) ==
    IF response.kind = "error" THEN << >>
    ELSE LET jsonStr == StripFence(response)
         IN  IF ParsesToArray(jsonStr)
             THEN [i \in 1..Len(consensus) |->
                    [consensus[i] EXCEPT !.reasoning = ReasoningFor(jsonStr.items, consensus[i].ticketKey)]]
             ELSE << >>

\* What addConsensusReasoning returns once its oracle call has settled.
MergeReasoning(consensus, response) ==
    IF response.kind = "error" THEN consensus
    ELSE LET jsonStr == StripFence(response)
         IN  IF ParsesToArray(jsonStr)
             THEN [i \in 1..Len(consensus) |->
                    [consensus[i] EXCEPT !.reasoning = ReasoningFor(jsonStr.items, consensus[i].ticketKey)]]
             ELSE consensus

(***************************************************************************)
(* One run of generateConsensusRecommendations                             *)
(***************************************************************************)
\* Math.min(this.config.temperature + 0.2, 1.0), in tenths
TrialTemperature == Min(ConfigTemperature + 2, 10)

Call(kind, verbosePrompt, temperature) ==
    [kind |-> kind, verbosePrompt |-> verbosePrompt, temperature |-> temperature]

Trials == 1..numTrials

\* Mutant: the join resumes as soon as one trial has settled.
AnySettled == \E i \in Trials : trialResponse[i] # Pending

AllSettled == \A i \in Trials : trialResponse[i] # Pending

\* Mutant: the requested trial count is passed instead of the valid count.
TotalTrialsArgRequested(valid, n) == n

\* totalTrials argument of aggregateTrialResults at its call site
TotalTrialsArg(valid, n) == Len(valid)

\* generateConsensusRecommendations called on its own: there is no run of
\* generateRecommendations around it.
NoGroomingFrame ==
    /\ gpc = "none"
    /\ parsedTickets = << >>
    /\ jiraIssues = << >>
    /\ notFound = << >>
    /\ engineerIssuesMap = Pending
    /\ sourceCalls = << >>
    /\ result = << >>
    /\ issuesSearch = Pending

\* buildEngineerProfiles is not called on its own.
NoProfileBuilder ==
    /\ issuesByAssignee = << >>
    /\ builtProfiles = << >>

Init ==
    /\ ticketsToGroom \in TicketLists
    /\ engineerProfiles \in ProfileLists
    /\ verbose \in BOOLEAN
    /\ numTrials \in 1..MaxTrials
    /\ pc = "start"
    /\ trialResponse = [i \in 1..numTrials |-> Pending]
    /\ allTrialResults = [i \in 1..numTrials |-> << >>]
    /\ validTrials = << >>
    /\ consensusResults = << >>
    /\ output = << >>
    /\ calls = << >>
    /\ rationaleResponse = Pending
    /\ NoGroomingFrame
    /\ epicSignals = << >>
    /\ NoProfileBuilder

\* if (ticketsToGroom.length === 0) return [];
ReturnEmpty ==
    /\ pc = "start"
    /\ Len(ticketsToGroom) = 0
    /\ pc' = "done"
    /\ output' = << >>
    /\ UNCHANGED <<ticketsToGroom, engineerProfiles, verbose, numTrials, trialResponse,
                   allTrialResults, validTrials, consensusResults, calls,
                   rationaleResponse, groomVars, epicSignals, profileVars>>

\* The keys of the first n signals in the order in which byTicket gets them.
RECURSIVE SignalKeys(_, _)
SignalKeys(signals, n) ==
    IF n = 0 THEN << >>
    ELSE LET before == SignalKeys(signals, n - 1)
         IN  IF \E i \in 1..Len(before) : before[i] = signals[n].ticketKey
             THEN before
             ELSE Append(before, signals[n].ticketKey)

\* byTicket.get(ticketKey): a new array of the signals of the key.
TicketSignals(signals, key) == SelectSeq(signals, LAMBDA signal : signal.ticketKey = key)

\* array.sort((a, b) => b.siblingCount - a.siblingCount) over the first n
\* elements: descending, elements of equal count keep their order.
RECURSIVE SortBySiblingCount(_, _)
SortBySiblingCount(array, n) ==
    IF n = 0 THEN << >>
    ELSE LET sorted == SortBySiblingCount(array, n - 1)
             ahead  == SelectSeq(sorted,
                                 LAMBDA a : a.siblingCount >= array[n].siblingCount)
             behind == SelectSeq(sorted,
                                 LAMBDA a : a.siblingCount < array[n].siblingCount)
         IN  ahead \o << array[n] >> \o behind

SignalLine(signal) ==
    [engineerName |-> signal.engineerName, siblingCount |-> signal.siblingCount,
     siblingTickets |-> signal.siblingTickets]

\* The lines of the first n tickets: a heading and the sorted signals.
RECURSIVE SignalLines(_, _, _)
SignalLines(signals, keys, n) ==
    IF n = 0 THEN << >>
    ELSE LET ticketSignals == TicketSignals(signals, keys[n])
             sorted == SortBySiblingCount(ticketSignals, Len(ticketSignals))
         IN  SignalLines(signals, keys, n - 1)
             \o << [heading |-> keys[n], epicKey |-> ticketSignals[1].epicKey] >>
             \o [i \in 1..Len(sorted) |-> SignalLine(sorted[i])]

\* Mutant: the list that was passed is sorted, not the list of a ticket.
formatEpicContinuitySignalsInPlace(signals) ==
    [lines   |-> IF Len(signals) = 0 THEN << "No epic continuity signals" >>
                 ELSE SignalLines(signals, SignalKeys(signals, Len(signals)),
                                  Len(SignalKeys(signals, Len(signals)))),
     signals |-> SortBySiblingCount(signals, Len(signals))]

\* formatEpicContinuitySignals: the lines of the prompt section, and the
\* array that was passed as the call leaves it.  The arrays that are sorted
\* are the ones byTicket holds, which the function has made itself.
formatEpicContinuitySignals(signals) ==
    [lines   |-> IF Len(signals) = 0 THEN << "No epic continuity signals" >>
                 ELSE SignalLines(signals, SignalKeys(signals, Len(signals)),
                                  Len(SignalKeys(signals, Len(signals)))),
     signals |-> signals]

\* Mutant: each trial is called with a temperature of its own.
DispatchTrialsWarmer ==
    /\ pc = "start"
    /\ Len(ticketsToGroom) > 0
    /\ calls' = [i \in 1..numTrials |-> Call("trial", FALSE, Min(ConfigTemperature + i, 10))]
    /\ pc' = "trials"
    /\ UNCHANGED <<ticketsToGroom, engineerProfiles, verbose, numTrials, trialResponse,
                   allTrialResults, validTrials, consensusResults, output,
                   rationaleResponse, groomVars, epicSignals, profileVars>>

\* Array.from({ length: numTrials }, () => generateText(...)): every trial
\* call is issued before the run first suspends.
DispatchTrials ==
    /\ pc = "start"
    /\ Len(ticketsToGroom) > 0
    /\ calls' = [i \in 1..numTrials |-> Call("trial", FALSE, TrialTemperature)]
    /\ pc' = "trials"
    /\ epicSignals' = formatEpicContinuitySignals(epicSignals).signals
    /\ UNCHANGED <<ticketsToGroom, engineerProfiles, verbose, numTrials, trialResponse,
                   allTrialResults, validTrials, consensusResults, output,
                   rationaleResponse, groomVars, profileVars>>

\* Mutant: the results are collected in the order in which the trials settle.
SettleTrialInCompletionOrder(i) ==
    /\ pc = "trials"
    /\ trialResponse[i] = Pending
    /\ \E response \in OracleResponses :
        /\ trialResponse' = [trialResponse EXCEPT ![i] = response]
        /\ allTrialResults' =
              [allTrialResults EXCEPT
                 ![Cardinality({ j \in Trials : trialResponse[j] # Pending }) + 1] =
                     TrialOutcome(response, ticketsToGroom)]
    /\ UNCHANGED <<ticketsToGroom, engineerProfiles, verbose, numTrials, pc,
                   validTrials, consensusResults, output, calls,
                   rationaleResponse, groomVars, epicSignals, profileVars>>

\* Mutant: a trial whose call rejects takes the results of the others with it.
SettleTrialFailFast(i) ==
    /\ pc = "trials"
    /\ trialResponse[i] = Pending
    /\ \E response \in OracleResponses :
        /\ trialResponse' = [trialResponse EXCEPT ![i] = response]
        /\ allTrialResults' =
              IF response.kind = "error" THEN [j \in 1..numTrials |-> << >>]
              ELSE [allTrialResults EXCEPT ![i] = TrialOutcome(response, ticketsToGroom)]
    /\ UNCHANGED <<ticketsToGroom, engineerProfiles, verbose, numTrials, pc,
                   validTrials, consensusResults, output, calls,
                   rationaleResponse, groomVars, epicSignals, profileVars>>

\* The oracle call of trial i settles and its .then/.catch chain runs.
SettleTrial(i) ==
    /\ pc = "trials"
    /\ trialResponse[i] = Pending
    /\ \E response \in OracleResponses :
        /\ trialResponse' = [trialResponse EXCEPT ![i] = response]
        /\ allTrialResults' = [allTrialResults EXCEPT ![i] = TrialOutcome(response, ticketsToGroom)]
    /\ UNCHANGED <<ticketsToGroom, engineerProfiles, verbose, numTrials, pc,
                   validTrials, consensusResults, output, calls,
                   rationaleResponse, groomVars, epicSignals, profileVars>>

\* Mutant: the fallback call is issued whatever the trials returned.
JoinFallbackAnyway ==
    /\ pc = "trials"
    /\ AllSettled
    /\ validTrials' = FilterNonEmpty(allTrialResults)
    /\ calls' = Append(calls, Call("fallback", verbose, ConfigTemperature))
    /\ pc' = "fallback"
    /\ UNCHANGED <<ticketsToGroom, engineerProfiles, verbose, numTrials, trialResponse,
                   allTrialResults, consensusResults, output,
                   rationaleResponse, groomVars, epicSignals, profileVars>>

\* Promise.all resolves, no trial is valid: the single-call fallback is issued.
JoinFallback ==
    /\ pc = "trials"
    /\ AllSettled
    /\ Len(FilterNonEmpty(allTrialResults)) = 0
    /\ validTrials' = FilterNonEmpty(allTrialResults)
    /\ calls' = Append(calls, Call("fallback", verbose, ConfigTemperature))
    /\ pc' = "fallback"
    /\ epicSignals' = formatEpicContinuitySignals(epicSignals).signals
    /\ UNCHANGED <<ticketsToGroom, engineerProfiles, verbose, numTrials, trialResponse,
                   allTrialResults, consensusResults, output,
                   rationaleResponse, groomVars, profileVars>>

\* Mutant: the rationale call is issued without verbose.
JoinAggregateThenRationale ==
    /\ pc = "trials"
    /\ AllSettled
    /\ Len(FilterNonEmpty(allTrialResults)) > 0
    /\ ~verbose
    /\ validTrials' = FilterNonEmpty(allTrialResults)
    /\ consensusResults' = aggregateTrialResults(ticketsToGroom, validTrials',
                                                 TotalTrialsArg(validTrials', numTrials))
    /\ calls' = Append(calls, Call("rationale", TRUE, ConfigTemperature))
    /\ pc' = "rationale"
    /\ UNCHANGED <<ticketsToGroom, engineerProfiles, verbose, numTrials, trialResponse,
                   allTrialResults, output,
                   rationaleResponse, groomVars, epicSignals, profileVars>>

\* Promise.all resolves, some trial is valid, not verbose: the aggregate is returned.
JoinAggregate ==
    /\ pc = "trials"
    /\ AllSettled
    /\ Len(FilterNonEmpty(allTrialResults)) > 0
    /\ ~verbose
    /\ validTrials' = FilterNonEmpty(allTrialResults)
    /\ consensusResults' = aggregateTrialResults(ticketsToGroom, validTrials',
                                                 TotalTrialsArg(validTrials', numTrials))
    /\ output' = consensusResults'
    /\ pc' = "done"
    /\ UNCHANGED <<ticketsToGroom, engineerProfiles, verbose, numTrials, trialResponse,
                   allTrialResults, calls,
                   rationaleResponse, groomVars, epicSignals, profileVars>>

\* Promise.all resolves, some trial is valid, verbose: the rationale call is issued.
JoinAggregateVerbose ==
    /\ pc = "trials"
    /\ AllSettled
    /\ Len(FilterNonEmpty(allTrialResults)) > 0
    /\ verbose
    /\ validTrials' = FilterNonEmpty(allTrialResults)
    /\ consensusResults' = aggregateTrialResults(ticketsToGroom, validTrials',
                                                 TotalTrialsArg(validTrials', numTrials))
    /\ calls' = Append(calls, Call("rationale", TRUE, ConfigTemperature))
    /\ pc' = "rationale"
    /\ epicSignals' = formatEpicContinuitySignals(epicSignals).signals
    /\ UNCHANGED <<ticketsToGroom, engineerProfiles, verbose, numTrials, trialResponse,
                   allTrialResults, output,
                   rationaleResponse, groomVars, profileVars>>

\* generateAssignmentRecommendations: the fallback call resolves and its text
\* is parsed with the caller's verbosity.
FallbackResolves ==
    /\ pc = "fallback"
    /\ \E response \in OracleResponses :
        /\ response.kind = "text"
        /\ output' = parseAssignmentResponse(response, ticketsToGroom, verbose)
    /\ pc' = "done"
    /\ UNCHANGED <<ticketsToGroom, engineerProfiles, verbose, numTrials, trialResponse,
                   allTrialResults, validTrials, consensusResults, calls,
                   rationaleResponse, groomVars, epicSignals, profileVars>>

\* generateAssignmentRecommendations: the fallback call rejects; nothing
\* catches the rejection, so it reaches the caller of the run.
FallbackRejects ==
    /\ pc = "fallback"
    /\ pc' = "thrown"
    /\ UNCHANGED <<ticketsToGroom, engineerProfiles, verbose, numTrials, trialResponse,
                   allTrialResults, validTrials, consensusResults, output, calls,
                   rationaleResponse, groomVars, epicSignals, profileVars>>

\* addConsensusReasoning: the rationale call settles.
SettleRationale ==
    /\ pc = "rationale"
    /\ \E response \in RationaleResponses :
        /\ rationaleResponse' = response
        /\ output' = MergeReasoning(consensusResults, response)
    /\ pc' = "done"
    /\ UNCHANGED <<ticketsToGroom, engineerProfiles, verbose, numTrials, trialResponse,
                   allTrialResults, validTrials, consensusResults, calls,
                   groomVars, epicSignals, profileVars>>

Next ==
    \/ ReturnEmpty
    \/ DispatchTrials
    \/ \E i \in 1..MaxTrials : i \in Trials /\ SettleTrial(i)
    \/ JoinFallback
    \/ JoinAggregate
    \/ JoinAggregateVerbose
    \/ FallbackResolves
    \/ FallbackRejects
    \/ SettleRationale

Spec == Init /\ [][Next]_vars

(***************************************************************************)
(* aggregateTrialResults on its own: a ticket list, a list of valid trial  *)
(* results built one trial at a time, then the aggregation.                *)
(***************************************************************************)
\* Ticket lists for the aggregation: one key, two keys, a repeated key
AggTicketLists ==
    { <<Ticket("T-1", "Meetings", "Add meeting button")>>,
      <<Ticket("T-1", "Meetings", "Add meeting button"), Ticket("T-2", "PostHog", "Remove survey")>>,
      <<Ticket("T-2", "PostHog", "Remove survey"), Ticket("T-1", "PostHog", "Add meeting button"),
        Ticket("T-1", "Meetings", "Add meeting button")>> }

InitAgg ==
    /\ ticketsToGroom \in AggTicketLists
    /\ engineerProfiles = <<"Alice", "Bob">>
    /\ verbose = FALSE
    /\ numTrials = 0
    /\ pc = "collect"
    /\ trialResponse = << >>
    /\ allTrialResults = << >>
    /\ validTrials = << >>
    /\ consensusResults = << >>
    /\ output = << >>
    /\ calls = << >>
    /\ rationaleResponse = Pending
    /\ NoGroomingFrame
    /\ epicSignals = << >>
    /\ NoProfileBuilder

\* One more trial result that passes the filter for valid trials.
AggAddTrial ==
    /\ pc = "collect"
    /\ Len(validTrials) < MaxAggTrials
    /\ \E response \in AggResponses :
        /\ Len(TrialOutcome(response, ticketsToGroom)) > 0
        /\ trialResponse' = Append(trialResponse, response)
        /\ validTrials' = Append(validTrials, TrialOutcome(response, ticketsToGroom))
    /\ numTrials' = numTrials + 1
    /\ allTrialResults' = validTrials'
    /\ UNCHANGED <<ticketsToGroom, engineerProfiles, verbose, pc, consensusResults,
                   output, calls,
                   rationaleResponse, groomVars, epicSignals, profileVars>>

AggAggregate ==
    /\ pc = "collect"
    /\ Len(validTrials) > 0
    /\ consensusResults' = aggregateTrialResults(ticketsToGroom, validTrials,
                                                 TotalTrialsArg(validTrials, numTrials))
    /\ output' = consensusResults'
    /\ pc' = "aggregated"
    /\ UNCHANGED <<ticketsToGroom, engineerProfiles, verbose, numTrials, trialResponse,
                   allTrialResults, validTrials, calls,
                   rationaleResponse, groomVars, epicSignals, profileVars>>

NextAgg == AggAddTrial \/ AggAggregate

SpecAgg == InitAgg /\ [][NextAgg]_vars

(***************************************************************************)
(* The profile and signal builders of GroomingService on their own         *)
(***************************************************************************)
Null == "<null>"

\* A ProcessedIssue of the work history.
HistoryIssue(id, status, components, labels, parent) ==
    [ticketId |-> id, status |-> status, components |-> components,
     labels |-> labels, parent |-> parent]

\* The issues a history is drawn from.  T-1 is a ticket to groom that is in
\* the history too.
IssuePool ==
    { HistoryIssue("H-1", "In Progress", <<"A">>, <<"bug">>, "EPIC-1"),
      HistoryIssue("H-2", "Done", <<"A", "B">>, <<"bug", "custom-x">>, "EPIC-1"),
      HistoryIssue("H-3", "QA", <<"A", "B", "C">>, << >>, Null),
      HistoryIssue("H-4", "in review", <<"D", "C">>, <<"Tech-Debt", "custom-z">>, "EPIC-1"),
      HistoryIssue("H-5", "Code Review", <<"D">>, <<"custom-z", "custom-y">>, "EPIC-1"),
      HistoryIssue("T-1", "To Do", << >>, <<"Story">>, "EPIC-1") }

\* The sequences without repetition of at most n elements of S.
RECURSIVE InjSeqsUpTo(_, _)
InjSeqsUpTo(S, n) ==
    IF n = 0 THEN { << >> }
    ELSE LET shorter == InjSeqsUpTo(S, n - 1)
         IN  shorter \cup UNION { { Append(s, x) : x \in S \ Range(s) } :
                                        s \in { t \in shorter : Len(t) = n - 1 } }

IssueLists == InjSeqsUpTo(IssuePool, MaxIssues)

\* One entry of Object.entries(issuesMap).
MapEntry(assignee, issues) == [assignee |-> assignee, issues |-> issues]

UnassignedIssue == HistoryIssue("U-1", "Backlog", <<"A">>, << >>, "EPIC-1")

BobIssue == HistoryIssue("B-1", "Testing", << >>, <<"custom-x">>, "EPIC-1")

\* The maps buildEngineerProfiles is given: empty, only unassigned work, one
\* engineer, two engineers around the unassigned work.
IssuesMaps ==
    { << >>, << MapEntry("Unassigned", <<UnassignedIssue>>) >> }
    \cup { << MapEntry("Alice", issues) >> : issues \in IssueLists }
    \cup { << MapEntry("Alice", issues), MapEntry("Unassigned", <<UnassignedIssue>>),
              MapEntry("Bob", bob) >> :
              issues \in IssueLists, bob \in { << >>, <<BobIssue>> } }

\* String.prototype.toLowerCase on the statuses and labels of the model.
toLowerCase(str) ==
    CASE str = "In Progress" -> "in progress"
      [] str = "QA" -> "qa"
      [] str = "Code Review" -> "code review"
      [] str = "Testing" -> "testing"
      [] str = "Done" -> "done"
      [] str = "To Do" -> "to do"
      [] str = "Backlog" -> "backlog"
      [] str = "Tech-Debt" -> "tech-debt"
      [] str = "Story" -> "story"
      [] OTHER -> str

IN_PROGRESS_STATUSES ==
    { "in progress", "in development", "in review", "code review", "testing", "qa" }

\* Mutant: the status is compared as it is written.
InProgressAsWritten(issue) == issue.status \in IN_PROGRESS_STATUSES

\* IN_PROGRESS_STATUSES.includes(issue.status.toLowerCase())
InProgress(issue) == toLowerCase(issue.status) \in IN_PROGRESS_STATUSES

currentWorkload(issues) == Len(SelectSeq(issues, InProgress))

genericLabels ==
    { "bug", "feature", "enhancement", "task", "story", "spike", "tech-debt",
      "technical-debt", "backlog", "priority" }

isGenericLabel(label) == toLowerCase(label) \in genericLabels

\* The components of the issues, in the order of the two nested loops.
RECURSIVE ComponentsOf(_, _)
ComponentsOf(issues, n) ==
    IF n = 0 THEN << >> ELSE ComponentsOf(issues, n - 1) \o issues[n].components

\* The labels of the issues that are counted, in the order of the loops.
RECURSIVE CountedLabelsOf(_, _)
CountedLabelsOf(issues, n) ==
    IF n = 0 THEN << >>
    ELSE CountedLabelsOf(issues, n - 1)
         \o SelectSeq(issues[n].labels, LAMBDA label : ~isGenericLabel(label))

\* The entries of a Map after counts.set(x, (counts.get(x) || 0) + 1) for
\* the first n items: a new key goes last, a counted key keeps its place.
RECURSIVE CountEntries(_, _)
CountEntries(items, n) ==
    IF n = 0 THEN << >>
    ELSE LET counted == CountEntries(items, n - 1)
         IN  IF \E i \in 1..Len(counted) : counted[i].name = items[n]
             THEN [i \in 1..Len(counted) |->
                    IF counted[i].name = items[n]
                    THEN [counted[i] EXCEPT !.count = @ + 1]
                    ELSE counted[i]]
             ELSE Append(counted, [name |-> items[n], count |-> 1])

\* Mutant: the entries are sorted by ascending count.
ComesBeforeAscending(entries, i, j) ==
    \/ entries[i].count < entries[j].count
    \/ entries[i].count = entries[j].count /\ i < j

\* Array.prototype.sort((a, b) => b[1] - a[1]) is stable: entry i comes before
\* entry j when its count is higher, or equal with i before j.
ComesBefore(entries, i, j) ==
    \/ entries[i].count > entries[j].count
    \/ entries[i].count = entries[j].count /\ i < j

SortByCount(entries) ==
    [k \in 1..Len(entries) |->
        entries[CHOOSE i \in 1..Len(entries) :
                   Cardinality({ j \in 1..Len(entries) : ComesBefore(entries, j, i) }) = k - 1]]

\* .sort(...).slice(0, n).map(([name]) => name)
TopNames(entries, n) ==
    [k \in 1..Min(n, Len(entries)) |-> SortByCount(entries)[k].name]

deriveSpecializations(issues) ==
    LET components == ComponentsOf(issues, Len(issues))
        labels == CountedLabelsOf(issues, Len(issues))
    IN  TopNames(CountEntries(components, Len(components)), 3)
        \o TopNames(CountEntries(labels, Len(labels)), 2)

EngineerProfile(name, issues) ==
    [name |-> name, email |-> "", recentTickets |-> issues,
     currentWorkload |-> currentWorkload(issues),
     specializations |-> deriveSpecializations(issues)]

\* Mutant: the entry of the unassigned work yields a profile too.
SkippedNever(entry) == FALSE

\* if (assigneeName === "Unassigned") continue;
Skipped(entry) == entry.assignee = "Unassigned"

\* buildEngineerProfiles with the records it builds: one profile per entry of
\* the map that is not skipped, in the order of the entries.
buildEngineerProfilesOf(entries) ==
    LET kept == SelectSeq(entries, LAMBDA entry : ~Skipped(entry))
    IN  [i \in 1..Len(kept) |-> EngineerProfile(kept[i].assignee, kept[i].issues)]

GroomingTicket(k, c, s, parent) ==
    [ticketKey |-> k, category |-> c, summary |-> s, parent |-> parent]

\* Ticket lists for the signal builder: no ticket, a ticket under an epic, a
\* ticket without parent before it, a ticket under another epic after it, and
\* the ticket twice.
SignalTicketLists ==
    { << >>,
      << GroomingTicket("T-1", "Meetings", "Add meeting button", "EPIC-1") >>,
      << GroomingTicket("T-2", "PostHog", "Remove survey", Null),
         GroomingTicket("T-1", "Meetings", "Add meeting button", "EPIC-1") >>,
      << GroomingTicket("T-1", "Meetings", "Add meeting button", "EPIC-1"),
         GroomingTicket("T-3", "PostHog", "Export events", "EPIC-2") >>,
      << GroomingTicket("T-1", "Meetings", "Add meeting button", "EPIC-1"),
         GroomingTicket("T-1", "Meetings", "Add meeting button", "EPIC-1") >> }

\* Mutant: the ticket to groom itself counts as a sibling.
IsSiblingOrSelf(issue, ticket) == issue.parent = ticket.parent

\* t.parent === epicKey && t.ticketId !== ticket.ticketKey
IsSibling(issue, ticket) ==
    issue.parent = ticket.parent /\ issue.ticketId # ticket.ticketKey

EpicContinuitySignal(ticket, engineer, siblingTickets) ==
    [ticketKey |-> ticket.ticketKey, epicKey |-> ticket.parent,
     engineerName |-> engineer.name, siblingCount |-> Len(siblingTickets),
     siblingTickets |-> [i \in 1..Min(3, Len(siblingTickets)) |-> siblingTickets[i].ticketId]]

\* The inner loop: the signals of one ticket for the first n engineers.
RECURSIVE SignalsOfTicket(_, _, _)
SignalsOfTicket(ticket, engineers, n) ==
    IF n = 0 THEN << >>
    ELSE LET siblingTickets ==
                SelectSeq(engineers[n].recentTickets, LAMBDA t : IsSibling(t, ticket))
         IN  IF Len(siblingTickets) > 0
             THEN Append(SignalsOfTicket(ticket, engineers, n - 1),
                         EpicContinuitySignal(ticket, engineers[n], siblingTickets))
             ELSE SignalsOfTicket(ticket, engineers, n - 1)

\* The outer loop over the tickets that have a parent.
RECURSIVE SignalsOfTickets(_, _, _)
SignalsOfTickets(ticketsWithParent, engineers, n) ==
    IF n = 0 THEN << >>
    ELSE SignalsOfTickets(ticketsWithParent, engineers, n - 1)
         \o SignalsOfTicket(ticketsWithParent[n], engineers, Len(engineers))

buildEpicContinuitySignals(groomingTickets, engineers) ==
    LET ticketsWithParent ==
            SelectSeq(groomingTickets, LAMBDA t : t.parent # Null /\ t.parent # "")
    IN  SignalsOfTickets(ticketsWithParent, engineers, Len(ticketsWithParent))

InitProfiles ==
    /\ ticketsToGroom \in SignalTicketLists
    /\ issuesByAssignee \in IssuesMaps
    /\ builtProfiles = << >>
    /\ epicSignals = << >>
    /\ pc = "buildEngineerProfiles"
    /\ engineerProfiles = << >>
    /\ verbose = FALSE
    /\ numTrials = 0
    /\ trialResponse = << >>
    /\ allTrialResults = << >>
    /\ validTrials = << >>
    /\ consensusResults = << >>
    /\ output = << >>
    /\ calls = << >>
    /\ rationaleResponse = Pending
    /\ NoGroomingFrame

\* const engineerProfiles = this.buildEngineerProfiles(engineerIssuesMap);
BuildProfiles ==
    /\ pc = "buildEngineerProfiles"
    /\ builtProfiles' = buildEngineerProfilesOf(issuesByAssignee)
    /\ engineerProfiles' = [i \in 1..Len(builtProfiles') |-> builtProfiles'[i].name]
    /\ pc' = "buildEpicContinuitySignals"
    /\ UNCHANGED <<ticketsToGroom, verbose, numTrials, trialResponse, allTrialResults,
                   validTrials, consensusResults, output, calls, rationaleResponse,
                   groomVars, epicSignals, issuesByAssignee>>

\* const epicContinuitySignals = this.buildEpicContinuitySignals(...);
BuildSignals ==
    /\ pc = "buildEpicContinuitySignals"
    /\ epicSignals' = buildEpicContinuitySignals(ticketsToGroom, builtProfiles)
    /\ pc' = "built"
    /\ UNCHANGED <<ticketsToGroom, engineerProfiles, verbose, numTrials, trialResponse,
                   allTrialResults, validTrials, consensusResults, output, calls,
                   rationaleResponse, groomVars, profileVars>>

NextProfiles == BuildProfiles \/ BuildSignals

SpecProfiles == InitProfiles /\ [][NextProfiles]_vars

(***************************************************************************)
(* One run of GroomingService.generateRecommendations                      *)
(***************************************************************************)
\* generateConsensusRecommendations(..., verbose, 5, epicContinuitySignals)
GroomNumTrials == 5

ParsedTicket(k, c, t) == [ticketKey |-> k, category |-> c, title |-> t]

\* What parseTicketList finds in the input file: the PM's title of a ticket
\* is not the summary Jira holds for it.
ParsedPool ==
    { ParsedTicket("T-1", "Meetings", "meeting button (PM)"),
      ParsedTicket("T-2", "PostHog", "survey (PM)") }

ParsedLists == SeqsUpTo(ParsedPool, MaxTickets)

ProcessedIssue(id, s, parent) == [ticketId |-> id, summary |-> s, parent |-> parent]

\* The issues Jira holds, in the order of its answers: T-1 is under an epic,
\* T-2 has no parent.
JiraProject ==
    << ProcessedIssue("T-1", "Add meeting button", "EPIC-1"),
       ProcessedIssue("T-2", "Remove survey", Null) >>

TicketKeys(parsed) == [i \in 1..Len(parsed) |-> parsed[i].ticketKey]

\* fetchIssuesByKeys resolves with the issues Jira returned for the keys.
FetchResult(issueKeys, found) ==
    [found    |-> found,
     notFound |-> SelectSeq(issueKeys,
                            LAMBDA key : \A i \in 1..Len(found) : found[i].ticketId # key)]

\* The Jira search of fetchIssuesByKeys rejects, or resolves with the issues
\* of some of the keys.
SearchOutcomes(issueKeys) ==
    { [kind |-> "error"] }
    \cup { [kind |-> "issues",
            issues |-> SelectSeq(JiraProject, LAMBDA issue : issue.ticketId \in present)] :
              present \in SUBSET Range(issueKeys) }

\* Mutant: a failed search is reported as nothing found and nothing missing.
fetchIssuesByKeysLosingKeys(issueKeys, search) ==
    IF Len(issueKeys) = 0 THEN [found |-> << >>, notFound |-> << >>]
    ELSE IF search.kind = "error" THEN [found |-> << >>, notFound |-> << >>]
    ELSE FetchResult(issueKeys, search.issues)

\* fetchIssuesByKeys: an empty key list returns at once, without a search;
\* otherwise the issues of the search are split off the keys, and a failed
\* search is caught and reported as every key not found.
fetchIssuesByKeys(issueKeys, search) ==
    IF Len(issueKeys) = 0 THEN [found |-> << >>, notFound |-> << >>]
    ELSE IF search.kind = "error" THEN [found |-> << >>, notFound |-> issueKeys]
    ELSE FetchResult(issueKeys, search.issues)

JiraMapHas(issues, key) == \E i \in 1..Len(issues) : issues[i].ticketId = key

JiraMapGet(issues, key) ==
    issues[CHOOSE i \in 1..Len(issues) :
              /\ issues[i].ticketId = key
              /\ \A j \in (i + 1)..Len(issues) : issues[j].ticketId # key]

\* Mutant: only the tickets Jira returned become grooming tickets.
buildGroomingTicketsOfFound(parsed, issues) ==
    LET kept == SelectSeq(parsed, LAMBDA t : JiraMapHas(issues, t.ticketKey))
    IN  [i \in 1..Len(kept) |->
            GroomingTicket(kept[i].ticketKey, kept[i].category,
                           JiraMapGet(issues, kept[i].ticketKey).summary,
                           JiraMapGet(issues, kept[i].ticketKey).parent)]

\* buildGroomingTickets: one grooming ticket per parsed ticket; the summary
\* is jiraData?.summary || parsed.title, the parent jiraData?.parent || null.
buildGroomingTickets(parsed, issues) ==
    [i \in 1..Len(parsed) |->
        GroomingTicket(parsed[i].ticketKey, parsed[i].category,
                       IF /\ JiraMapHas(issues, parsed[i].ticketKey)
                          /\ JiraMapGet(issues, parsed[i].ticketKey).summary # ""
                       THEN JiraMapGet(issues, parsed[i].ticketKey).summary
                       ELSE parsed[i].title,
                       IF /\ JiraMapHas(issues, parsed[i].ticketKey)
                          /\ JiraMapGet(issues, parsed[i].ticketKey).parent # ""
                       THEN JiraMapGet(issues, parsed[i].ticketKey).parent
                       ELSE Null)]

\* fetchGroomingEngineerIssues resolves with a map keyed by assignee name.
IssuesMap(assignees) == [kind |-> "map", assignees |-> assignees]

HistoryMaps ==
    { IssuesMap(<< >>), IssuesMap(<<"Unassigned">>), IssuesMap(<<"Alice">>),
      IssuesMap(<<"Alice", "Unassigned", "Bob">>) }

\* buildEngineerProfiles: one profile per assignee, "Unassigned" skipped.
buildEngineerProfiles(issuesMap) ==
    SelectSeq(issuesMap.assignees, LAMBDA name : name # "Unassigned")

\* The issues the work history holds for an assignee: Alice has worked on
\* one ticket under EPIC-1, Bob on two.
JiraHistory(assignee) ==
    CASE assignee = "Alice" ->
            << HistoryIssue("H-1", "In Progress", <<"A">>, <<"bug">>, "EPIC-1") >>
      [] assignee = "Bob" ->
            << HistoryIssue("H-2", "Done", <<"A", "B">>, <<"bug", "custom-x">>, "EPIC-1"),
               HistoryIssue("H-4", "in review", <<"D", "C">>, <<"Tech-Debt", "custom-z">>,
                            "EPIC-1") >>
      [] OTHER -> << UnassignedIssue >>

\* The entries of the map fetchGroomingEngineerIssues resolved with.
HistoryEntries(issuesMap) ==
    [i \in 1..Len(issuesMap.assignees) |->
        MapEntry(issuesMap.assignees[i], JiraHistory(issuesMap.assignees[i]))]

Failure(message) == [error |-> message]

GroomingResult(recs, profiles, missing) ==
    [recommendations |-> recs, engineerProfiles |-> profiles, notFoundTickets |-> missing]

\* Mutant: an empty ticket list is let through.
NoTicketsIgnored(parsed) == FALSE

\* if (parsedTickets.length === 0) throw
NoTickets(parsed) == Len(parsed) = 0

\* Mutant: an empty profile list is let through.
NoProfilesIgnored(profiles) == FALSE

\* if (engineerProfiles.length === 0) throw
NoProfiles(profiles) == Len(profiles) = 0

InitGroom ==
    /\ gpc = "readFile"
    /\ verbose \in BOOLEAN
    /\ numTrials = GroomNumTrials
    /\ pc = "uncalled"
    /\ ticketsToGroom = << >>
    /\ engineerProfiles = << >>
    /\ trialResponse = [i \in 1..numTrials |-> Pending]
    /\ allTrialResults = [i \in 1..numTrials |-> << >>]
    /\ validTrials = << >>
    /\ consensusResults = << >>
    /\ output = << >>
    /\ calls = << >>
    /\ rationaleResponse = Pending
    /\ parsedTickets = << >>
    /\ jiraIssues = << >>
    /\ notFound = << >>
    /\ engineerIssuesMap = Pending
    /\ sourceCalls = << >>
    /\ result = << >>
    /\ issuesSearch = Pending
    /\ epicSignals = << >>
    /\ NoProfileBuilder

consensusVars == <<ticketsToGroom, engineerProfiles, verbose, numTrials, pc,
                   trialResponse, allTrialResults, validTrials, consensusResults,
                   output, calls, rationaleResponse, epicSignals>>

\* fs.readFile rejects.
ReadFileRejects ==
    /\ gpc = "readFile"
    /\ gpc' = "failed"
    /\ result' = Failure("readFile")
    /\ UNCHANGED <<consensusVars, parsedTickets, jiraIssues, notFound, engineerIssuesMap,
                   sourceCalls,
                   issuesSearch, profileVars>>

\* fs.readFile resolves and the content is parsed: an empty ticket list
\* throws, any other list is looked up in Jira.
ReadFileResolves ==
    /\ gpc = "readFile"
    /\ \E parsed \in ParsedLists :
        /\ parsedTickets' = parsed
        /\ IF NoTickets(parsed)
           THEN /\ gpc' = "failed"
                /\ result' = Failure("No tickets found in input file")
                /\ UNCHANGED sourceCalls
           ELSE /\ gpc' = "fetchIssues"
                /\ sourceCalls' = IF Len(TicketKeys(parsed)) = 0 THEN sourceCalls
                                  ELSE Append(sourceCalls, "issuesByKeys")
                /\ UNCHANGED result
    /\ UNCHANGED <<consensusVars, jiraIssues, notFound, engineerIssuesMap,
                   issuesSearch, profileVars>>

\* fetchIssuesByKeys resolves; the grooming tickets are built and the work
\* history is requested.
IssuesSettle ==
    /\ gpc = "fetchIssues"
    /\ \E search \in (IF Len(parsedTickets) = 0 THEN { Pending }
                       ELSE SearchOutcomes(TicketKeys(parsedTickets))) :
        LET fetched == fetchIssuesByKeys(TicketKeys(parsedTickets), search)
        IN  /\ issuesSearch' = search
            /\ jiraIssues' = fetched.found
            /\ notFound' = fetched.notFound
            /\ ticketsToGroom' = buildGroomingTickets(parsedTickets, fetched.found)
    /\ sourceCalls' = Append(sourceCalls, "engineerIssues")
    /\ gpc' = "fetchHistory"
    /\ UNCHANGED <<engineerProfiles, verbose, numTrials, pc, trialResponse, allTrialResults,
                   validTrials, consensusResults, output, calls, rationaleResponse,
                   parsedTickets, engineerIssuesMap, result,
                   epicSignals, profileVars>>

\* fetchGroomingEngineerIssues rejects.
HistoryRejects ==
    /\ gpc = "fetchHistory"
    /\ engineerIssuesMap' = [kind |-> "error"]
    /\ gpc' = "failed"
    /\ result' = Failure("fetchGroomingEngineerIssues")
    /\ UNCHANGED <<consensusVars, parsedTickets, jiraIssues, notFound, sourceCalls,
                   issuesSearch, profileVars>>

\* fetchGroomingEngineerIssues resolves and the profiles are built: no
\* profile throws, otherwise generateConsensusRecommendations is called.
HistoryResolves ==
    /\ gpc = "fetchHistory"
    /\ \E issuesMap \in HistoryMaps :
        /\ engineerIssuesMap' = issuesMap
        /\ engineerProfiles' = buildEngineerProfiles(issuesMap)
        /\ epicSignals' = IF NoProfiles(engineerProfiles') THEN epicSignals
                          ELSE buildEpicContinuitySignals(
                                   ticketsToGroom, buildEngineerProfilesOf(HistoryEntries(issuesMap)))
    /\ IF NoProfiles(engineerProfiles')
       THEN /\ gpc' = "failed"
            /\ result' = Failure("No engineer profiles found")
            /\ UNCHANGED pc
       ELSE /\ gpc' = "consensus"
            /\ pc' = "start"
            /\ UNCHANGED result
    /\ UNCHANGED <<ticketsToGroom, verbose, numTrials, trialResponse, allTrialResults,
                   validTrials, consensusResults, output, calls, rationaleResponse,
                   parsedTickets, jiraIssues, notFound, sourceCalls,
                   issuesSearch, profileVars>>

\* generateConsensusRecommendations has returned: the result is assembled.
ConsensusReturns ==
    /\ gpc = "consensus"
    /\ pc = "done"
    /\ result' = GroomingResult(output, engineerProfiles, notFound)
    /\ gpc' = "returned"
    /\ UNCHANGED <<consensusVars, parsedTickets, jiraIssues, notFound, engineerIssuesMap,
                   sourceCalls,
                   issuesSearch, profileVars>>

\* generateConsensusRecommendations has thrown: nothing catches it.
ConsensusThrows ==
    /\ gpc = "consensus"
    /\ pc = "thrown"
    /\ result' = Failure("generateText")
    /\ gpc' = "failed"
    /\ UNCHANGED <<consensusVars, parsedTickets, jiraIssues, notFound, engineerIssuesMap,
                   sourceCalls,
                   issuesSearch, profileVars>>

NextGroom ==
    \/ ReadFileRejects
    \/ ReadFileResolves
    \/ IssuesSettle
    \/ HistoryRejects
    \/ HistoryResolves
    \/ DispatchTrials
    \/ \E i \in 1..GroomNumTrials : SettleTrial(i)
    \/ JoinFallback
    \/ JoinAggregate
    \/ JoinAggregateVerbose
    \/ FallbackResolves
    \/ FallbackRejects
    \/ SettleRationale
    \/ ConsensusReturns
    \/ ConsensusThrows

SpecGroom == InitGroom /\ [][NextGroom]_vars

(***************************************************************************)
(* Vocabulary of the properties                                            *)
(***************************************************************************)
KeysOf(seq) == { seq[i].ticketKey : i \in 1..Len(seq) }

KeyCount(seq, key) == Cardinality({ i \in 1..Len(seq) : seq[i].ticketKey = key })

\* One record per input ticket: every key occurs as often in the list as in
\* the input, and no other key occurs.
OnePerTicket(recs, tickets) ==
    \A key \in KeysOf(recs) \cup KeysOf(tickets) : KeyCount(recs, key) = KeyCount(tickets, key)

\* The trial recommends the engineer for the key: its first record for the
\* key names the engineer.
Recommends(trial, key, engineer) ==
    \E j \in 1..Len(trial) :
        /\ trial[j].ticketKey = key
        /\ trial[j].recommendedEngineer = engineer
        /\ \A h \in 1..(j - 1) : trial[h].ticketKey # key

HasVote(trial, key) == \E j \in 1..Len(trial) : trial[j].ticketKey = key

\* The oracle call errored, or its text cannot be parsed into an array.
TrialFailed(response) ==
    \/ response.kind = "error"
    \/ response.kind = "text" /\ response.body.json # "array"

\* The oracle call returned no parseable mapping: it failed, or the array is empty.
NoMapping(response) ==
    \/ TrialFailed(response)
    \/ response.kind = "text" /\ response.body.json = "array" /\ response.body.items = << >>

Joined == pc \in {"fallback", "rationale", "done", "thrown"} /\ Len(ticketsToGroom) > 0

\* The run went through aggregateTrialResults.
Aggregated == Joined /\ validTrials # << >>

FellBack == \E c \in 1..Len(calls) : calls[c].kind = "fallback"

Returned == pc = "done" /\ Len(ticketsToGroom) > 0

NonEmptyTrials == { i \in Trials : allTrialResults[i] # << >> }

(***************************************************************************)
(* Claims                                                                  *)
(***************************************************************************)

\* C1: a run over a non-empty ticket list returns exactly one recommendation
\* for each input ticket, on every path and whatever the oracle answers.
C1_OnePerInputTicket == Returned => OnePerTicket(output, ticketsToGroom)

\* C2: every returned recommendedEngineer is the name of a supplied
\* EngineerProfile or the sentinel.
C2_EngineerIsProfileOrSentinel ==
    Returned =>
        \A i \in 1..Len(output) :
            output[i].recommendedEngineer \in Range(engineerProfiles) \cup {Sentinel}

\* C3: in the aggregated output the sentinel is the winner of a ticket if
\* and only if no valid trial voted for the ticket, and then with 0 votes.
C3_SentinelIffNoVote ==
    Aggregated =>
        \A i \in 1..Len(consensusResults) :
            LET rec == consensusResults[i]
                noVote == \A t \in 1..Len(validTrials) : ~HasVote(validTrials[t], rec.ticketKey)
            IN  /\ (rec.recommendedEngineer = Sentinel) <=> noVote
                /\ (rec.recommendedEngineer = Sentinel) => rec.confidence = <<0, Len(validTrials)>>

\* C4: a trial whose oracle call errors or whose response cannot be parsed
\* contributes an empty result set, is not among the valid trials and is not
\* counted in a confidence denominator.
C4_FailedTrialIsEmpty ==
    /\ \A i \in Trials :
        (trialResponse[i] # Pending /\ TrialFailed(trialResponse[i])) => allTrialResults[i] = << >>
    /\ Aggregated =>
        \A i \in 1..Len(consensusResults) :
            consensusResults[i].confidence[2]
                <= Cardinality({ t \in Trials : ~TrialFailed(trialResponse[t]) })

\* C5: when at least one trial is valid, every confidence denominator is the
\* number of non-empty trial results of the run, the same for every ticket.
C5_DenominatorIsValidTrials ==
    Aggregated =>
        /\ \A i \in 1..Len(consensusResults) :
            consensusResults[i].confidence[2] = Cardinality(NonEmptyTrials)
        /\ pc = "done" =>
            /\ Len(output) = Len(ticketsToGroom)
            /\ \A i \in 1..Len(output) : output[i].confidence[2] = Cardinality(NonEmptyTrials)

\* C5 witness: a returned aggregate of a run in which some trial was empty.
C5_Witness ==
    /\ Aggregated
    /\ pc = "done"
    /\ numTrials = 3
    /\ Cardinality(NonEmptyTrials) = 2
    /\ \A i \in 1..Len(output) : output[i].confidence[2] = 2

\* C7: if every trial returns no parseable mapping, the run falls back to a
\* single call and returns one recommendation per ticket, each with
\* confidence absent or 1/1.
C7_AllFailFallsBack ==
    (/\ pc \in {"done", "thrown"}
     /\ Len(ticketsToGroom) > 0
     /\ \A i \in Trials : NoMapping(trialResponse[i]))
    =>  /\ pc = "done"
        /\ FellBack
        /\ OnePerTicket(output, ticketsToGroom)
        /\ \A i \in 1..Len(output) : output[i].confidence \in {NoConfidence, <<1, 1>>}

\* C8: when every trial fails, the run makes the fallback call and returns a
\* list; it never ends in an error, whatever the fallback call does.
C8_FallbackNeverThrows ==
    (Joined /\ \A i \in Trials : allTrialResults[i] = << >>)
    =>  /\ FellBack
        /\ pc # "thrown"

(***************************************************************************)
(* Claims about aggregateTrialResults (SpecAgg)                            *)
(***************************************************************************)
AggDone == pc = "aggregated"

\* Number of valid trials that recommend the engineer for the key.
VoteCount(trials, key, engineer) ==
    Cardinality({ t \in 1..Len(trials) : Recommends(trials[t], key, engineer) })

\* Engineers some valid trial recommends for the key.
Voted(trials, key) ==
    UNION { { trials[t][j].recommendedEngineer :
                j \in { h \in 1..Len(trials[t]) :
                          /\ trials[t][h].ticketKey = key
                          /\ \A g \in 1..(h - 1) : trials[t][g].ticketKey # key } } :
            t \in 1..Len(trials) }

\* Engineers with the highest vote count for the key.
TopVoted(trials, key) ==
    { e \in Voted(trials, key) :
        \A f \in Voted(trials, key) : VoteCount(trials, key, f) <= VoteCount(trials, key, e) }

\* Index of the first trial that recommends the engineer for the key.
FirstSeen(trials, key, engineer) ==
    CHOOSE t \in 1..Len(trials) :
        /\ Recommends(trials[t], key, engineer)
        /\ \A u \in 1..(t - 1) : ~Recommends(trials[u], key, engineer)

Permuted(trials, p) == [t \in 1..Len(trials) |-> trials[p[t]]]

\* Every valid trial was parsed from a JSON array of the oracle.
AllParsed == \A t \in 1..Len(trialResponse) : ~TrialFailed(trialResponse[t])

\* C6 as stated: every permutation of the valid trial results gives every
\* ticket the same winner and the same vote count, ties included.  The valid
\* trials are taken to be parsed oracle answers.
C6_OrderIndependent ==
    (AggDone /\ AllParsed) =>
        \A p \in Permutations(1..Len(validTrials)) :
            LET other == aggregateTrialResults(ticketsToGroom, Permuted(validTrials, p),
                                               Len(validTrials))
            IN  \A i \in 1..Len(consensusResults) :
                    /\ other[i].recommendedEngineer = consensusResults[i].recommendedEngineer
                    /\ other[i].confidence = consensusResults[i].confidence

\* C6 as amended: every permutation of the valid trials gives every ticket
\* the same vote count, and the same winner unless two or more engineers are
\* tied on the highest vote count of the ticket.
C6_OrderIndependentUpToTies ==
    AggDone =>
        \A p \in Permutations(1..Len(validTrials)) :
            LET other == aggregateTrialResults(ticketsToGroom, Permuted(validTrials, p),
                                               Len(validTrials))
            IN  \A i \in 1..Len(consensusResults) :
                    /\ other[i].confidence = consensusResults[i].confidence
                    /\ Cardinality(TopVoted(validTrials, consensusResults[i].ticketKey)) <= 1
                        => other[i].recommendedEngineer = consensusResults[i].recommendedEngineer

\* C6 witness: an aggregate of three trials in which one ticket has a single
\* top-voted engineer ahead of another voted engineer.
C6_Witness ==
    /\ AggDone
    /\ Len(validTrials) = 3
    /\ \E i \in 1..Len(consensusResults) :
        /\ Cardinality(Voted(validTrials, consensusResults[i].ticketKey)) = 2
        /\ Cardinality(TopVoted(validTrials, consensusResults[i].ticketKey)) = 1
        /\ consensusResults[i].confidence = <<2, 3>>

\* C9: the winner of a ticket has the highest vote count among the engineers
\* voted for it, and the confidence numerator is the number of valid trials
\* that recommended the winner for the ticket.
C9_WinnerHasMostVotes ==
    AggDone =>
        \A i \in 1..Len(consensusResults) :
            LET rec == consensusResults[i]
                key == rec.ticketKey
            IN  /\ rec.confidence[1] = VoteCount(validTrials, key, rec.recommendedEngineer)
                /\ \A e \in Voted(validTrials, key) :
                        VoteCount(validTrials, key, e) <= rec.confidence[1]
                /\ Voted(validTrials, key) # {} => rec.recommendedEngineer \in Voted(validTrials, key)

\* C9 witness: three votes for one engineer and one for another over four
\* valid trials.
C9_Witness ==
    /\ AggDone
    /\ Len(validTrials) = 4
    /\ \E i \in 1..Len(consensusResults) :
        /\ consensusResults[i].recommendedEngineer = "Bob"
        /\ consensusResults[i].confidence = <<3, 4>>
        /\ VoteCount(validTrials, consensusResults[i].ticketKey, "Alice") = 1

\* C10: when several engineers are tied on the highest vote count of a
\* ticket, the winner is the tied engineer that is met first when the valid
\* trials are scanned in list order.
C10_TieGoesToFirstEncountered ==
    AggDone =>
        \A i \in 1..Len(consensusResults) :
            LET rec == consensusResults[i]
                key == rec.ticketKey
                top == TopVoted(validTrials, key)
            IN  Cardinality(top) >= 2 =>
                    /\ rec.recommendedEngineer \in top
                    /\ \A e \in top : FirstSeen(validTrials, key, rec.recommendedEngineer)
                                        <= FirstSeen(validTrials, key, e)

\* C10 witness: four valid trials split 2/2 on a ticket, the winner being
\* the engineer of the first trial.
C10_Witness ==
    /\ AggDone
    /\ Len(validTrials) = 4
    /\ \E i \in 1..Len(consensusResults) :
        LET key == consensusResults[i].ticketKey
        IN  /\ TopVoted(validTrials, key) = {"Alice", "Bob"}
            /\ consensusResults[i].confidence = <<2, 4>>
            /\ Recommends(validTrials[1], key, consensusResults[i].recommendedEngineer)

\* Votes for the engineer among the first n valid trials.
RunningTally(trials, key, engineer, n) ==
    Cardinality({ t \in 1..n : Recommends(trials[t], key, engineer) })

\* Number of trials scanned when the engineer's running tally reaches m.
ReachedAt(trials, key, engineer, m) ==
    CHOOSE n \in 1..Len(trials) :
        /\ RunningTally(trials, key, engineer, n) >= m
        /\ \A h \in 1..(n - 1) : RunningTally(trials, key, engineer, h) < m

\* C11 as stated: when several engineers are tied on the highest vote count
\* of a ticket, the winner is the one whose running tally reaches that count
\* first in the scan of the valid trials.
C11_TieGoesToFirstToReachMax ==
    (AggDone /\ AllParsed) =>
        \A i \in 1..Len(consensusResults) :
            LET rec == consensusResults[i]
                key == rec.ticketKey
                top == TopVoted(validTrials, key)
            IN  Cardinality(top) >= 2 =>
                    /\ rec.recommendedEngineer \in top
                    /\ \A e \in top :
                        ReachedAt(validTrials, key, rec.recommendedEngineer, rec.confidence[1])
                            <= ReachedAt(validTrials, key, e, rec.confidence[1])

\* C11 as amended: when several engineers are tied on the highest vote count
\* of a ticket, the winner is the tied engineer whose running tally is the
\* first to leave zero: at some point of the scan the winner has a vote and
\* the other tied engineer has none.
C11_TieGoesToFirstToScore ==
    AggDone =>
        \A i \in 1..Len(consensusResults) :
            LET rec == consensusResults[i]
                key == rec.ticketKey
                top == TopVoted(validTrials, key)
            IN  Cardinality(top) >= 2 =>
                    /\ rec.recommendedEngineer \in top
                    /\ \A e \in top \ {rec.recommendedEngineer} :
                        \E n \in 1..Len(validTrials) :
                            /\ RunningTally(validTrials, key, rec.recommendedEngineer, n) >= 1
                            /\ RunningTally(validTrials, key, e, n) = 0

\* C11 witness: four valid trials voting Alice, Bob, Bob, Alice on a ticket;
\* Bob reaches 2 first and Alice wins.
C11_Witness ==
    /\ AggDone
    /\ Len(validTrials) = 4
    /\ \E i \in 1..Len(consensusResults) :
        LET key == consensusResults[i].ticketKey
        IN  /\ Recommends(validTrials[1], key, "Alice")
            /\ Recommends(validTrials[2], key, "Bob")
            /\ Recommends(validTrials[3], key, "Bob")
            /\ Recommends(validTrials[4], key, "Alice")
            /\ consensusResults[i].recommendedEngineer = "Alice"
            /\ consensusResults[i].confidence = <<2, 4>>

\* The rationale call has settled and failed: the oracle errored, or its text
\* is no JSON array.
RationaleFailed ==
    /\ rationaleResponse # Pending
    /\ \/ rationaleResponse.kind = "error"
       \/ rationaleResponse.kind = "text" /\ rationaleResponse.body.json # "array"

\* C12: when the rationale call of a verbose run fails, the run returns, and
\* what it returns is exactly the consensus computed before the call: the
\* aggregate of the valid trials, ticket by ticket in the same order, with
\* the same winners and confidence and without reasoning.
C12_RationaleFailureReturnsConsensus ==
    RationaleFailed =>
        /\ pc = "done"
        /\ output = consensusResults
        /\ output = aggregateTrialResults(ticketsToGroom, validTrials, Len(validTrials))
        /\ Len(output) = Len(ticketsToGroom)
        /\ \A i \in 1..Len(output) : output[i].reasoning = Absent

\* C12 witness: a verbose run whose rationale text is not JSON has returned
\* a consensus with a voted winner.
C12_Witness ==
    /\ RationaleFailed
    /\ verbose
    /\ rationaleResponse.kind = "text"
    /\ pc = "done"
    /\ \E i \in 1..Len(output) : output[i].recommendedEngineer = "Bob" /\ output[i].confidence = <<2, 3>>

SomePending == \E i \in Trials : trialResponse[i] = Pending

\* C13: while a dispatched trial is pending the run stays suspended in the
\* trial batch: only the N trial calls have been made, no valid-trial list,
\* consensus or output exists, and no fallback or rationale call was issued;
\* a run that is past the batch has every trial settled.
C13_BatchWaitsForAllTrials ==
    /\ (SomePending /\ calls # << >>) =>
            /\ pc = "trials"
            /\ \A c \in 1..Len(calls) : calls[c].kind = "trial"
            /\ validTrials = << >>
            /\ consensusResults = << >>
            /\ output = << >>
    /\ Joined => ~SomePending

\* C13 witness: one trial has succeeded, one has failed, one is pending, and
\* the run is still in the batch.
C13_Witness ==
    /\ pc = "trials"
    /\ \E i \in Trials : allTrialResults[i] # << >> /\ trialResponse[i] = RespAliceBob
    /\ \E i \in Trials : trialResponse[i] = OracleError
    /\ SomePending
    /\ output = << >>

\* What the trials resolve to, by trial index, as a function of the oracle
\* responses alone.
OutcomeByTrial ==
    [i \in 1..numTrials |->
        IF trialResponse[i] = Pending THEN << >>
        ELSE TrialOutcome(trialResponse[i], ticketsToGroom)]

\* C14: the aggregation depends on the trials' identity and content only: at
\* every point of every interleaving of trial completions the collected
\* results are those of the responses by trial index, and the consensus
\* (winners, vote counts, confidence) is the aggregate of the responses taken
\* in trial index order.
C14_CompletionOrderIrrelevant ==
    /\ (pc # "start" /\ Len(ticketsToGroom) > 0) => allTrialResults = OutcomeByTrial
    /\ Aggregated =>
            consensusResults =
                aggregateTrialResults(ticketsToGroom, FilterNonEmpty(OutcomeByTrial),
                                      Len(FilterNonEmpty(OutcomeByTrial)))

\* C14 witness: trial 1 votes Alice and trial 3 votes Bob on the first
\* ticket, trial 2 failed, and the tie went to Alice: the run is reached by
\* every completion order of the three trials.
C14_Witness ==
    /\ Aggregated
    /\ numTrials = 3
    /\ trialResponse[1] = RespAliceBob
    /\ trialResponse[2] = OracleError
    /\ trialResponse[3] = RespBobBob
    /\ ticketsToGroom[1].ticketKey = "T-1"
    /\ consensusResults[1].recommendedEngineer = "Alice"
    /\ consensusResults[1].confidence = <<1, 2>>

\* The run of generateConsensusRecommendations is over: no call is pending
\* and no step is left to take.
RunOver == pc \notin {"start", "trials", "fallback", "rationale"}

\* C17: a run that dispatched trials and is over is in Done: it has returned
\* a list to its caller.
C17_DispatchedRunEndsDone ==
    (calls # << >> /\ RunOver) => pc = "done"

\* The calls of one kind, as positions of the call log.
CallsOfKind(kind) == { c \in 1..Len(calls) : calls[c].kind = kind }

\* C18: the oracle calls of a run are the N trial calls, followed by at most
\* one more call, which is the fallback call or the rationale call; the
\* fallback call exists only when every trial has settled with an empty
\* result, and then nothing was aggregated.
C18_CallsFollowStateMachine ==
    /\ Len(calls) \in {0, numTrials, numTrials + 1}
    /\ calls # << >> => CallsOfKind("trial") = 1..numTrials
    /\ Cardinality(CallsOfKind("fallback")) + Cardinality(CallsOfKind("rationale")) <= 1
    /\ FellBack =>
            /\ ~SomePending
            /\ \A i \in Trials : allTrialResults[i] = << >>
            /\ consensusResults = << >>
            /\ pc \in {"fallback", "done", "thrown"}
    /\ (pc = "fallback") => CallsOfKind("fallback") = {numTrials + 1}
    /\ (Joined /\ ~FellBack) => \E i \in Trials : allTrialResults[i] # << >>

\* C18 witness: three trials failed, the fallback call was made and the run
\* has returned after four oracle calls.
C18_Witness ==
    /\ pc = "done"
    /\ numTrials = 3
    /\ FellBack
    /\ Len(calls) = 4
    /\ output # << >>

\* C19: a rationale call is the only one of its run and the last call of the
\* log; it exists only in a verbose run in which every trial has settled, a
\* trial is valid and the consensus is already computed, and what the run
\* returns after it keeps the winner and the confidence of every ticket.
C19_RationaleOnceAfterAggregation ==
    /\ Cardinality(CallsOfKind("rationale")) <= 1
    /\ CallsOfKind("rationale") # {} =>
            /\ verbose
            /\ ~SomePending
            /\ validTrials # << >>
            /\ CallsOfKind("rationale") = {numTrials + 1}
            /\ consensusResults =
                 aggregateTrialResults(ticketsToGroom, validTrials, Len(validTrials))
            /\ pc \in {"rationale", "done"}
            /\ pc = "done" =>
                    /\ Len(output) = Len(consensusResults)
                    /\ \A i \in 1..Len(output) :
                        /\ output[i].ticketKey = consensusResults[i].ticketKey
                        /\ output[i].recommendedEngineer = consensusResults[i].recommendedEngineer
                        /\ output[i].confidence = consensusResults[i].confidence
    /\ (pc = "rationale") => CallsOfKind("rationale") # {}

\* C19 witness: a verbose run with a failed trial has made its rationale call
\* and returned a record with reasoning.
C19_Witness ==
    /\ pc = "done"
    /\ CallsOfKind("rationale") # {}
    /\ \E i \in Trials : allTrialResults[i] = << >>
    /\ \E i \in 1..Len(output) :
        output[i].reasoning \notin {Absent} /\ output[i].confidence = <<1, 2>>

(***************************************************************************)
(* Claims about generateRecommendations (SpecGroom)                        *)
(***************************************************************************)
\* The work history was fetched and holds no engineer: the map is empty or
\* "Unassigned" is its only assignee.
NoProfileRun ==
    /\ engineerIssuesMap.kind = "map"
    /\ \A a \in Range(engineerIssuesMap.assignees) : a = "Unassigned"

\* C15: a run whose work history yields no engineer profile has aborted with
\* the no-profiles error, generateConsensusRecommendations was not called and
\* no oracle call was made.
C15_NoProfilesAbortsBeforeTrials ==
    NoProfileRun =>
        /\ gpc = "failed"
        /\ result = Failure("No engineer profiles found")
        /\ pc = "uncalled"
        /\ calls = << >>
        /\ \A i \in Trials : trialResponse[i] = Pending

\* C15 witness: the history holds only the "Unassigned" pseudo-engineer, for
\* tickets that were found in Jira, and the run has aborted.
C15_Witness ==
    /\ engineerIssuesMap = IssuesMap(<<"Unassigned">>)
    /\ Len(ticketsToGroom) = 2
    /\ notFound = << >>
    /\ gpc = "failed"
    /\ calls = << >>

\* The input file was read and parsed.
FileParsed == gpc # "readFile" /\ result # Failure("readFile")

\* C16: a run whose parsed ticket list is empty has aborted with the
\* no-tickets error, and neither Jira search (tickets, work history) nor any
\* oracle call was made.
C16_NoTicketsAbortsBeforeSources ==
    (FileParsed /\ parsedTickets = << >>) =>
        /\ gpc = "failed"
        /\ result = Failure("No tickets found in input file")
        /\ sourceCalls = << >>
        /\ engineerIssuesMap = Pending
        /\ pc = "uncalled"
        /\ calls = << >>

\* C16 witness: the file parsed to no ticket and the run has aborted.
C16_Witness ==
    /\ FileParsed
    /\ parsedTickets = << >>
    /\ gpc = "failed"
    /\ sourceCalls = << >>

\* fetchIssuesByKeys has resolved (the work history was requested after it).
IssuesFetched == \E c \in 1..Len(sourceCalls) : sourceCalls[c] = "engineerIssues"

FoundKeys == { jiraIssues[i].ticketId : i \in 1..Len(jiraIssues) }

\* The keys absent from Jira are reported, in the order of the file.
AbsentKeysReported ==
    /\ notFound = SelectSeq(TicketKeys(parsedTickets), LAMBDA key : key \notin FoundKeys)
    /\ gpc = "returned" => result.notFoundTickets = notFound

\* A run that failed after the lookup failed for another reason than a
\* missing ticket.
AbsenceNotFatal ==
    gpc = "failed" =>
        result \in { Failure("fetchGroomingEngineerIssues"),
                     Failure("No engineer profiles found"), Failure("generateText") }

\* C20 as stated: absent keys do not fail the run and are reported in
\* notFoundTickets, and the run proceeds with the found subset: the grooming
\* tickets given to the trials and the recommendations returned cover
\* exactly the keys found in Jira.
C20_ProceedsWithFoundSubset ==
    IssuesFetched =>
        /\ AbsenceNotFatal
        /\ AbsentKeysReported
        /\ KeysOf(ticketsToGroom) = FoundKeys
        /\ gpc = "returned" => KeysOf(result.recommendations) = FoundKeys

\* C20 as amended: absent keys do not fail the run and are reported in
\* notFoundTickets, and the run proceeds with every parsed ticket: the
\* grooming tickets given to the trials are one per parsed ticket in file
\* order, a ticket absent from Jira with the title of the file as summary,
\* and a run that returns an aggregate returns one recommendation per parsed
\* ticket, found or not.
C20_ProceedsWithEveryParsedTicket ==
    IssuesFetched =>
        /\ AbsenceNotFatal
        /\ AbsentKeysReported
        /\ Len(ticketsToGroom) = Len(parsedTickets)
        /\ \A i \in 1..Len(parsedTickets) :
            /\ ticketsToGroom[i].ticketKey = parsedTickets[i].ticketKey
            /\ ticketsToGroom[i].category = parsedTickets[i].category
            /\ parsedTickets[i].ticketKey \notin FoundKeys
                    => ticketsToGroom[i].summary = parsedTickets[i].title
            /\ parsedTickets[i].ticketKey \in FoundKeys
                    => ticketsToGroom[i].summary # parsedTickets[i].title
        /\ (gpc = "returned" /\ validTrials # << >>) =>
                /\ Len(result.recommendations) = Len(parsedTickets)
                /\ \A i \in 1..Len(parsedTickets) :
                    result.recommendations[i].ticketKey = parsedTickets[i].ticketKey

\* C20 witness: of T-1 and T-2 only T-1 is in Jira; the run has returned,
\* reports T-2 as not found and recommends an engineer for it.
C20_Witness ==
    /\ gpc = "returned"
    /\ TicketKeys(parsedTickets) = <<"T-1", "T-2">>
    /\ FoundKeys = {"T-1"}
    /\ result.notFoundTickets = <<"T-2">>
    /\ ticketsToGroom[2].summary = "survey (PM)"
    /\ Len(result.recommendations) = 2
    /\ result.recommendations[2].ticketKey = "T-2"
    /\ result.recommendations[2].recommendedEngineer = "Bob"

\* C25: once fetchIssuesByKeys has resolved, every requested key is the
\* identifier of a returned issue or is listed in notFound, and never both;
\* when the Jira search failed, no issue is returned, every requested key is
\* listed in notFound, and the run went on instead of failing there.
C25_KeysSplitIntoFoundAndNotFound ==
    IssuesFetched =>
        /\ \A key \in Range(TicketKeys(parsedTickets)) :
            (key \in FoundKeys) # (key \in Range(notFound))
        /\ issuesSearch.kind = "error" =>
                /\ jiraIssues = << >>
                /\ notFound = TicketKeys(parsedTickets)
                /\ result # Failure("fetchIssuesByKeys")
                /\ gpc = "failed" => engineerIssuesMap # Pending

\* C25 witness: the search for T-1 and T-2 failed, both keys are reported as
\* not found and the run has returned.
C25_Witness ==
    /\ IssuesFetched
    /\ issuesSearch.kind = "error"
    /\ notFound = <<"T-1", "T-2">>
    /\ gpc = "returned"
    /\ result.notFoundTickets = <<"T-1", "T-2">>

(***************************************************************************)
(* Claims about the profile and signal builders (SpecProfiles)             *)
(***************************************************************************)
ProfilesBuilt == pc \in {"buildEpicContinuitySignals", "built"}

SignalsBuilt == pc = "built"

\* The positions of the engineer's records under the parent of the ticket
\* that are not the ticket itself.
SiblingPositions(ticket, profile) ==
    { i \in 1..Len(profile.recentTickets) :
        /\ profile.recentTickets[i].parent = ticket.parent
        /\ profile.recentTickets[i].ticketId # ticket.ticketKey }

\* The k-th smallest element of a set of positions.
KthOf(positions, k) ==
    CHOOSE i \in positions : Cardinality({ j \in positions : j < i }) = k - 1

SignalsFor(key, name) ==
    { n \in 1..Len(epicSignals) :
        epicSignals[n].ticketKey = key /\ epicSignals[n].engineerName = name }

\* C21: for each grooming ticket with a parent and each profile, the signal
\* list holds a signal for the pair exactly when the engineer has a record
\* under that parent other than the ticket itself: one signal per occurrence
\* of the ticket in the list, with that number of records as siblingCount and
\* the identifiers of the first three of them in history order; a ticket
\* without parent and an engineer without such a record have no signal.
C21_OneSignalPerTicketAndEngineer ==
    SignalsBuilt =>
        /\ \A t \in Range(ticketsToGroom), e \in Range(builtProfiles) :
            LET positions == SiblingPositions(t, e)
                count == Cardinality(positions)
                emitted == SignalsFor(t.ticketKey, e.name)
            IN  IF t.parent # Null /\ count >= 1
                THEN /\ Cardinality(emitted) = KeyCount(ticketsToGroom, t.ticketKey)
                     /\ \A n \in emitted :
                            /\ epicSignals[n].epicKey = t.parent
                            /\ epicSignals[n].siblingCount = count
                            /\ Len(epicSignals[n].siblingTickets) = Min(3, count)
                            /\ \A k \in 1..Min(3, count) :
                                epicSignals[n].siblingTickets[k]
                                    = e.recentTickets[KthOf(positions, k)].ticketId
                ELSE emitted = {}
        /\ \A n \in 1..Len(epicSignals) :
            /\ epicSignals[n].ticketKey \in KeysOf(ticketsToGroom)
            /\ \E e \in Range(builtProfiles) : e.name = epicSignals[n].engineerName

\* C21 witness: Alice's history holds T-1 itself and four more records under
\* EPIC-1; for the ticket T-1 under EPIC-1 there is one signal, with
\* siblingCount 4 and the first three identifiers.
C21_Witness ==
    /\ SignalsBuilt
    /\ Len(ticketsToGroom) = 1
    /\ ticketsToGroom[1].ticketKey = "T-1"
    /\ Len(builtProfiles) = 1
    /\ [i \in 1..Len(builtProfiles[1].recentTickets) |-> builtProfiles[1].recentTickets[i].ticketId]
            = <<"H-1", "T-1", "H-2", "H-4", "H-5">>
    /\ Len(epicSignals) = 1
    /\ epicSignals[1].siblingCount = 4
    /\ epicSignals[1].siblingTickets = <<"H-1", "H-2", "H-4">>

\* The occurrences of a component in the issues: issue and place in it.
ComponentOccurrences(issues, name) ==
    UNION { { <<i, k>> : k \in { h \in 1..Len(issues[i].components) :
                                    issues[i].components[h] = name } } :
            i \in 1..Len(issues) }

\* The occurrences of a label in the issues: issue and place in it.
LabelOccurrences(issues, name) ==
    UNION { { <<i, k>> : k \in { h \in 1..Len(issues[i].labels) :
                                    issues[i].labels[h] = name } } :
            i \in 1..Len(issues) }

Earlier(a, b) == a[1] < b[1] \/ (a[1] = b[1] /\ a[2] < b[2])

\* x is seen first before y is.
SeenFirst(occX, occY) == \E a \in occX : \A b \in occY : Earlier(a, b)

\* x ranks before y: it is more frequent, or as frequent and seen first.
RanksBefore(occX, occY) ==
    \/ Cardinality(occX) > Cardinality(occY)
    \/ Cardinality(occX) = Cardinality(occY) /\ SeenFirst(occX, occY)

AllComponents(issues) == UNION { Range(issues[i].components) : i \in 1..Len(issues) }

NonGenericLabels(issues) ==
    { l \in UNION { Range(issues[i].labels) : i \in 1..Len(issues) } :
        toLowerCase(l) \notin { "bug", "feature", "enhancement", "task", "story", "spike",
                                "tech-debt", "technical-debt", "backlog", "priority" } }

\* C22: the specializations of every profile are the 3 best ranked of the
\* engineer's components followed by the 2 best ranked of the labels that
\* are not generic; a name ranks before another when it is more frequent, or
\* as frequent and seen first; there are at most 5 entries.
C22_TopComponentsThenTopLabels ==
    ProfilesBuilt =>
        \A p \in Range(builtProfiles) :
            LET issues == p.recentTickets
                components == AllComponents(issues)
                labels == NonGenericLabels(issues)
                nc == Min(3, Cardinality(components))
                nl == Min(2, Cardinality(labels))
            IN  /\ Len(p.specializations) = nc + nl
                /\ Len(p.specializations) <= 5
                /\ \A k \in 1..nc :
                    /\ p.specializations[k] \in components
                    /\ Cardinality({ y \in components \ {p.specializations[k]} :
                            RanksBefore(ComponentOccurrences(issues, y),
                                        ComponentOccurrences(issues, p.specializations[k])) })
                        = k - 1
                /\ \A k \in 1..nl :
                    /\ p.specializations[nc + k] \in labels
                    /\ Cardinality({ y \in labels \ {p.specializations[nc + k]} :
                            RanksBefore(LabelOccurrences(issues, y),
                                        LabelOccurrences(issues, p.specializations[nc + k])) })
                        = k - 1

\* C22 witness: components A, A, B, A, B, C with labels bug, bug, custom-x
\* give A, B, C, custom-x.
C22_Witness ==
    /\ ProfilesBuilt
    /\ Len(builtProfiles) >= 1
    /\ ComponentsOf(builtProfiles[1].recentTickets, Len(builtProfiles[1].recentTickets))
            = <<"A", "A", "B", "A", "B", "C">>
    /\ [i \in 1..Len(builtProfiles[1].recentTickets) |-> builtProfiles[1].recentTickets[i].labels]
            = << <<"bug">>, <<"bug", "custom-x">>, << >> >>
    /\ builtProfiles[1].specializations = <<"A", "B", "C", "custom-x">>

\* C23: the profiles are, in the order of the map, one per assignee name other
\* than "Unassigned", each with the assignee's records as its tickets; an
\* assignee without records has a profile with no ticket, no specialization
\* and workload 0.
C23_OneProfilePerEngineer ==
    ProfilesBuilt =>
        /\ \A e \in 1..Len(issuesByAssignee) :
            LET name == issuesByAssignee[e].assignee
                built == { i \in 1..Len(builtProfiles) : builtProfiles[i].name = name }
            IN  /\ Cardinality(built) = IF name = "Unassigned" THEN 0 ELSE 1
                /\ \A i \in built :
                    /\ builtProfiles[i].recentTickets = issuesByAssignee[e].issues
                    /\ issuesByAssignee[e].issues = << >> =>
                            /\ builtProfiles[i].specializations = << >>
                            /\ builtProfiles[i].currentWorkload = 0
                /\ \A i \in built, f \in 1..(e - 1), j \in 1..Len(builtProfiles) :
                    builtProfiles[j].name = issuesByAssignee[f].assignee => j < i
        /\ \A i \in 1..Len(builtProfiles) :
            \E e \in 1..Len(issuesByAssignee) : issuesByAssignee[e].assignee = builtProfiles[i].name

\* C23 witness: a map with Alice, the unassigned work and Bob without records
\* gives the profiles of Alice and of Bob, Bob's empty.
C23_Witness ==
    /\ ProfilesBuilt
    /\ Len(issuesByAssignee) = 3
    /\ issuesByAssignee[3] = MapEntry("Bob", << >>)
    /\ Len(issuesByAssignee[1].issues) = 2
    /\ Len(builtProfiles) = 2
    /\ builtProfiles[2].name = "Bob"
    /\ builtProfiles[2].recentTickets = << >>

\* C24: the workload of every profile is the number of the engineer's records
\* whose lower-cased status is one of the six active statuses; it lies
\* between 0 and the number of records.
C24_WorkloadCountsActiveStatuses ==
    ProfilesBuilt =>
        \A p \in Range(builtProfiles) :
            /\ p.currentWorkload =
                 Cardinality({ i \in 1..Len(p.recentTickets) :
                     toLowerCase(p.recentTickets[i].status)
                         \in { "in progress", "in development", "in review", "code review",
                               "testing", "qa" } })
            /\ 0 <= p.currentWorkload
            /\ p.currentWorkload <= Len(p.recentTickets)

\* C24 witness: records in the statuses In Progress, Done, QA and in review
\* give workload 3.
C24_Witness ==
    /\ ProfilesBuilt
    /\ Len(builtProfiles) = 1
    /\ [i \in 1..Len(builtProfiles[1].recentTickets) |-> builtProfiles[1].recentTickets[i].status]
            = <<"In Progress", "Done", "QA", "in review">>
    /\ builtProfiles[1].currentWorkload = 3

(***************************************************************************)
(* Further claims about a run (Spec)                                       *)
(***************************************************************************)
\* C26: whichever trials error, the result of every trial whose call returned
\* a text is the parse of that text and nothing else, an errored trial
\* resolves to the empty list, and the join of the batch does not reject:
\* a run ends in an error only through its fallback call.
C26_TrialsAreIsolated ==
    /\ calls # << >> =>
            \A i \in Trials :
                /\ trialResponse[i].kind = "text" =>
                        allTrialResults[i]
                            = parseAssignmentResponse(trialResponse[i], ticketsToGroom, FALSE)
                /\ trialResponse[i].kind = "error" => allTrialResults[i] = << >>
    /\ pc = "thrown" => FellBack

\* C26 witness: the first and the last of three trials errored, the second
\* kept its parsed result and the run returned its vote.
C26_Witness ==
    /\ pc = "done"
    /\ numTrials = 3
    /\ trialResponse = <<OracleError, RespAliceBob, OracleError>>
    /\ allTrialResults[2] # << >>
    /\ Len(validTrials) = 1
    /\ \E i \in 1..Len(output) : output[i].recommendedEngineer = "Alice"

TheTrialCall == Call("trial", FALSE, TrialTemperature)

\* C27: the trial calls are issued in one step, numTrials of them, all with
\* the non-verbose prompt and the elevated temperature, while no trial has
\* settled; no step in which a trial settles issues a call.
C27_TrialsDispatchedTogether ==
    [][ /\ CallsOfKind("trial")' # CallsOfKind("trial") =>
            /\ calls = << >>
            /\ \A i \in Trials : trialResponse[i] = Pending
            /\ Len(calls') = numTrials
            /\ \A c \in 1..numTrials : calls'[c] = TheTrialCall
        /\ trialResponse' # trialResponse =>
            /\ calls' = calls
            /\ Cardinality(CallsOfKind("trial")) = numTrials ]_vars

\* C27 witness: three trial calls are out and none has settled.
C27_Witness ==
    /\ pc = "trials"
    /\ numTrials = 3
    /\ Len(calls) = 3
    /\ \A i \in Trials : trialResponse[i] = Pending

\* The rationale call has settled with a JSON array.
RationaleSucceeded ==
    /\ rationaleResponse # Pending
    /\ rationaleResponse.kind = "text"
    /\ rationaleResponse.body.json = "array"

\* C30: when the rationale call succeeds the run returns the consensus
\* results entry by entry with only the reasoning changed: the reasoning of
\* an entry is one the response gives for its ticket key; a ticket the
\* response does not mention has none, and a reasoning given for another key
\* goes nowhere.
C30_RationaleChangesOnlyReasoning ==
    RationaleSucceeded =>
        /\ pc = "done"
        /\ Len(output) = Len(consensusResults)
        /\ \A i \in 1..Len(output) :
            /\ output[i] = [consensusResults[i] EXCEPT !.reasoning = output[i].reasoning]
            /\ output[i].reasoning # Absent =>
                    \E n \in 1..Len(rationaleResponse.body.items) :
                        /\ rationaleResponse.body.items[n].ticketKey = output[i].ticketKey
                        /\ rationaleResponse.body.items[n].reasoning = output[i].reasoning
            /\ (\A n \in 1..Len(rationaleResponse.body.items) :
                    rationaleResponse.body.items[n].ticketKey # output[i].ticketKey)
                => output[i].reasoning = Absent

\* C30 witness: the response explains T-1 and T-2, and the list returned for
\* T-2, T-1 carries their reasonings on the voted winners.
C30_Witness ==
    /\ RationaleSucceeded
    /\ rationaleResponse.body.items[1] = RationaleItem("T-1", "why T-1")
    /\ Len(output) = 2
    /\ output[1].ticketKey = "T-2"
    /\ output[1].reasoning = "why T-2"
    /\ output[1].recommendedEngineer = "Bob"
    /\ output[2].reasoning = "why T-1"

(***************************************************************************)
(* Further claims about aggregateTrialResults (SpecAgg)                    *)
(***************************************************************************)
RECURSIVE SumOfCounts(_, _)
SumOfCounts(votes, n) == IF n = 0 THEN 0 ELSE SumOfCounts(votes, n - 1) + votes[n].count

\* C29: in the votes of every ticket of an aggregated output an engineer has
\* as many votes as there are valid trials whose first record for the ticket
\* names the engineer, so that the votes sum to the number of valid trials
\* with a record for the ticket, which is at most the number of valid trials,
\* and the winner's votes lie between 0 and that number.
C29_OneVotePerTrialAndTicket ==
    AggDone =>
        \A i \in 1..Len(consensusResults) :
            LET key == consensusResults[i].ticketKey
                votes == TallyVotes(validTrials, key, Len(validTrials))
            IN  /\ \A v \in 1..Len(votes) :
                    votes[v].count = VoteCount(validTrials, key, votes[v].engineer)
                /\ SumOfCounts(votes, Len(votes))
                    = Cardinality({ t \in 1..Len(validTrials) : HasVote(validTrials[t], key) })
                /\ SumOfCounts(votes, Len(votes)) <= Len(validTrials)
                /\ 0 <= consensusResults[i].confidence[1]
                /\ consensusResults[i].confidence[1] <= Len(validTrials)
                /\ consensusResults[i].confidence[2] = Len(validTrials)

\* C29 witness: the only valid trial lists T-1 twice, for Bob and then for
\* Alice, and T-1 goes to Bob with one vote of one.
C29_Witness ==
    /\ AggDone
    /\ trialResponse = <<RespRepeatedKey>>
    /\ \E i \in 1..Len(consensusResults) :
        /\ consensusResults[i].ticketKey = "T-1"
        /\ consensusResults[i].recommendedEngineer = "Bob"
        /\ consensusResults[i].confidence = <<1, 1>>

(***************************************************************************)
(* Claims about the inputs of a run inside generateRecommendations         *)
(* (SpecGroom)                                                             *)
(***************************************************************************)
\* C28: from the call of generateConsensusRecommendations on, no step
\* changes the ticket list, the engineer profiles or the continuity-signal
\* list it was given, neither their contents nor their order: not the
\* dispatch of the trials, the settling of a trial, the aggregation, the
\* fallback or the rationale call, each with the prompt formatting it does.
C28_InputsLeftUnchanged ==
    [][ pc # "uncalled" =>
            /\ ticketsToGroom' = ticketsToGroom
            /\ engineerProfiles' = engineerProfiles
            /\ epicSignals' = epicSignals ]_vars

\* C28 witness: a verbose run has returned after formatting the signals for
\* the trials and for the rationale; the section lists Bob, with two sibling
\* tickets, before Alice, and the list still has Alice before Bob.
C28_Witness ==
    /\ pc = "done"
    /\ CallsOfKind("rationale") # {}
    /\ Len(epicSignals) = 2
    /\ epicSignals[1].engineerName = "Alice" /\ epicSignals[1].siblingCount = 1
    /\ epicSignals[2].engineerName = "Bob" /\ epicSignals[2].siblingCount = 2
    /\ formatEpicContinuitySignals(epicSignals).lines[2].engineerName = "Bob"
    /\ formatEpicContinuitySignals(epicSignals).lines[3].engineerName = "Alice"
    /\ epicSignals = buildEpicContinuitySignals(
                         ticketsToGroom, buildEngineerProfilesOf(HistoryEntries(engineerIssuesMap)))

====
